---- MODULE Spec2Model ----
(***************************************************************************)
(* Model of chess_board.py: the ChessBoard placement search.               *)
(*                                                                         *)
(* A ChessBoard instance holds width, height, pieces, verbose and the      *)
(* counter combinations_number.  find_combinations() runs the recursive    *)
(* place_pieces(); the recursion is modelled by an explicit call stack of  *)
(* frames, one run of the loop body past the (i, j) in _cells_map test per *)
(* step.  Dictionaries live in a heap of objects addressed by reference,   *)
(* so that dict(...) (a copy) and a plain assignment (an alias) differ.    *)
(***************************************************************************)
EXTENDS Integers, Sequences, FiniteSets, TLC

VARIABLES width, height, pieces, verbose, combinations_number,
          pc, err, runs, stack, heap, stdout, counted, single, instance,
          prev_count

vars == <<width, height, pieces, verbose, combinations_number,
          pc, err, runs, stack, heap, stdout, counted, single, instance,
          prev_count>>

\* ---------------------------------------------------------------- bounds
MaxWidth == 3
MaxHeight == 2
MaxPieces == 2
MaxRuns == 2
MaxSwapPieces == 3

\* ------------------------------------------------------------- constants
PIECES == <<"Q", "R", "B", "K", "N">>

PIECES_MAP == [p \in {PIECES[k] : k \in 1..Len(PIECES)} |->
                 6 - (CHOOSE k \in 1..Len(PIECES) : PIECES[k] = p)]

\* symbols a caller may pass: the five kinds and one unrecognised symbol
Symbols == DOMAIN PIECES_MAP \cup {"X"}

None == "None"

\* the value check_board_for_* returns: None, or a set of cells
NoneResult == [ok |-> FALSE, cells |-> {}]

SetResult(s) == [ok |-> TRUE, cells |-> s]

\* ------------------------------------------------------------ dict model
EmptyDict == [c \in {} |-> None]

\* d[c] = v
DictSet(d, c, v) == (c :> v) @@ d

\* for c in cs: d[c] = v
DictSetAll(d, cs, v) == [k \in cs |-> v] @@ d

Abs(n) == IF n < 0 THEN -n ELSE n

\* ------------------------------------------------ attack pattern checks
IsCellCannotBeTakenNever(cell, cells_map) == FALSE

IsCellCannotBeTaken(cell, cells_map) ==
    cell \in DOMAIN cells_map /\ cells_map[cell] \in DOMAIN PIECES_MAP

\* the common tail of every check_board_for_*: None as soon as an examined
\* cell holds a piece, otherwise the examined cells not yet in the map
Examined(cells, cells_map) ==
    IF \E c \in cells : IsCellCannotBeTaken(c, cells_map)
    THEN NoneResult
    ELSE SetResult(cells \ DOMAIN cells_map)

CellsK(y, x) ==
    {<<y + i, x + j>> : <<i, j>> \in
        {d \in (-1..1) \X (-1..1) :
            /\ (d[1] # 0 \/ d[2] # 0)
            /\ 0 <= x + d[2] /\ x + d[2] < width
            /\ 0 <= y + d[1] /\ y + d[1] < height}}

CellsR(y, x) ==
    {<<y, i>> : i \in (0..(width - 1)) \ {x}}
      \cup {<<i, x>> : i \in (0..(height - 1)) \ {y}}

CellsB(y, x) ==
    {<<y + Abs(x - i), i>> :
        i \in {k \in (0..(width - 1)) \ {x} : y + Abs(x - k) < height}}
      \cup {<<y - Abs(x - i), i>> :
        i \in {k \in (0..(width - 1)) \ {x} : y - Abs(x - k) >= 0}}

KnightOffsets == {<<-2, 1>>, <<-1, 2>>, <<1, 2>>, <<2, 1>>}

CellsN(y, x) ==
    {<<y + o[2], x + o[1]>> :
        o \in {k \in KnightOffsets :
                 x + k[1] < width /\ x + k[1] >= 0 /\ y + k[2] < height}}
      \cup {<<y - o[2], x + o[1]>> :
        o \in {k \in KnightOffsets :
                 x + k[1] < width /\ x + k[1] >= 0 /\ y - k[2] >= 0}}

CheckBoardForK(y, x, cells_map) == Examined(CellsK(y, x), cells_map)

CheckBoardForR(y, x, cells_map) == Examined(CellsR(y, x), cells_map)

CheckBoardForB(y, x, cells_map) == Examined(CellsB(y, x), cells_map)

CheckBoardForQRookOnly(y, x, cells_map) == CheckBoardForR(y, x, cells_map)

CheckBoardForQ(y, x, cells_map) ==
    LET cells_r == CheckBoardForR(y, x, cells_map)
        cells_b == CheckBoardForB(y, x, cells_map)
    IN  IF ~cells_r.ok THEN cells_r
        ELSE IF ~cells_b.ok THEN cells_b
        ELSE SetResult(cells_r.cells \cup cells_b.cells)

CheckBoardForN(y, x, cells_map) == Examined(CellsN(y, x), cells_map)

\* check_board: the dispatch on the piece symbol; the caller guards the
\* KeyError case (piece not a key of the dispatch table)
CheckBoard(y, x, cells_map, piece) ==
    CASE piece = "K" -> CheckBoardForK(y, x, cells_map)
      [] piece = "R" -> CheckBoardForR(y, x, cells_map)
      [] piece = "Q" -> CheckBoardForQ(y, x, cells_map)
      [] piece = "B" -> CheckBoardForB(y, x, cells_map)
      [] piece = "N" -> CheckBoardForN(y, x, cells_map)

\* ----------------------------------------------------------- rendering
\* new_board: height rows of width zeros
NewBoard == [y \in 1..height |-> [x \in 1..width |-> "0"]]

\* prettyfie_board: the dash line (its length) and the grid of str(cell);
\* a cell of the map shows its value, or '-' when the value is None
PrettyfieBoard(cells) ==
    [line |-> 3 * (width - 1) + width,
     rows |-> [y \in 1..height |-> [x \in 1..width |->
                 IF <<y - 1, x - 1>> \in DOMAIN cells
                 THEN (IF cells[<<y - 1, x - 1>>] = None
                       THEN "-" ELSE cells[<<y - 1, x - 1>>])
                 ELSE NewBoard[y][x]]]]

\* ------------------------------------------------------- heap of dicts
\* dict(src): a new object new holding the entries of src
DictAlias(h, src, new) == [heap |-> h, ref |-> src]

DictCopy(h, src, new) == [heap |-> (new :> h[src]) @@ h, ref |-> new]

HeapSet(h, ref, c, v) == [h EXCEPT ![ref] = DictSet(@, c, v)]

HeapSetAll(h, ref, cs, v) == [h EXCEPT ![ref] = DictSetAll(@, cs, v)]

\* objects no frame refers to are released
Release(h, st) == [k \in {st[n].ref : n \in DOMAIN st} |-> h[k]]

\* ------------------------------------------------- the loops of a frame
\* for i in range(start_y, height): if i != start_y: start_x = 0
\*     for j in range(start_x, width): ...
\* NextRow moves a frame to the first cell of row i or of a later row
RECURSIVE NextRowNoReset(_, _)
NextRowNoReset(f, i) ==
    IF i >= height THEN [f EXCEPT !.fin = TRUE]
    ELSE IF f.start_x < width
         THEN [f EXCEPT !.i = i, !.j = f.start_x]
         ELSE NextRowNoReset(f, i + 1)

RECURSIVE NextRow(_, _)
NextRow(f, i) ==
    IF i >= height THEN [f EXCEPT !.fin = TRUE]
    ELSE LET sx == IF i # f.start_y THEN 0 ELSE f.start_x
         IN  IF sx < width
             THEN [f EXCEPT !.start_x = sx, !.i = i, !.j = sx]
             ELSE NextRow([f EXCEPT !.start_x = sx], i + 1)

\* the next iteration of the inner loop, or the next row
Step(f) ==
    IF f.j + 1 < width THEN [f EXCEPT !.j = f.j + 1] ELSE NextRow(f, f.i + 1)

\* the loop body runs for cell (i, j)
Visit(f) == [f EXCEPT !.seen = Append(@, <<f.i, f.j>>)]

\* if (i, j) in _cells_map: continue
\* the iterations that stop at this test are taken in one go, a row at a
\* time: the frame moves on to the first cell that is not in the map d (or
\* out of the loops), and every cell passed over has been examined
FreeCols(f, d) == {c[2] : c \in ({f.i} \X (f.j..(width - 1))) \ DOMAIN d}

Least(S) == CHOOSE m \in S : \A n \in S : m <= n

PassedOver(f, upto) == [n \in 1..(upto - f.j) |-> <<f.i, f.j + n - 1>>]

RECURSIVE SeekFree(_, _)
SeekFree(f, d) ==
    IF f.fin THEN f
    ELSE LET free == FreeCols(f, d)
         IN  IF free # {}
             THEN [f EXCEPT !.j = Least(free),
                            !.seen = @ \o PassedOver(f, Least(free))]
             ELSE SeekFree(NextRow([f EXCEPT !.seen = @ \o PassedOver(f, width)],
                                   f.i + 1), d)

\* continue: after the body ran for (i, j), on to the next candidate
Advance(f, d) == SeekFree(Step(Visit(f)), d)

RestPiecesSame(ps) == ps

\* pieces[1:]
RestPieces(ps) == Tail(ps)

\* a call place_pieces(start_x, start_y, _cells_map, pieces), at its first
\* loop iteration
NewFrame(start_x, start_y, ref, ps, h) ==
    SeekFree(NextRow([ref |-> ref, start_x |-> start_x, start_y |-> start_y,
                      i |-> start_y, j |-> start_x, fin |-> FALSE,
                      pieces |-> ps, arg_x |-> start_x, arg_y |-> start_y,
                      seen |-> <<>>], start_y), h[ref])

top == stack[Len(stack)]

SetTop(f) == [stack EXCEPT ![Len(stack)] = f]

NewRef == Len(stack) + 1

InLoop == pc = "running" /\ stack # <<>> /\ ~top.fin

\* ------------------------------------------------------------ the state
Widths == 0..MaxWidth

Heights == 0..MaxHeight

PieceLists == UNION {[1..n -> Symbols] : n \in 0..MaxPieces}

\* ChessBoard(width, height, pieces, verbose): __init__ stores its
\* arguments unchecked and zeroes the counter
Init ==
    /\ width \in Widths
    /\ height \in Heights
    /\ pieces \in PieceLists
    /\ verbose \in BOOLEAN
    /\ combinations_number = 0
    /\ pc = "idle"
    /\ err = None
    /\ runs = 0
    /\ stack = <<>>
    /\ heap = <<>>
    /\ stdout = <<>>
    /\ counted = <<>>
    /\ single = 0
    /\ instance = 1
    /\ prev_count = 0

Config == <<width, height, pieces, verbose, instance, prev_count>>

\* get_combinations_number
GetCombinationsNumber == combinations_number

\* ----------------------------------------------------- find_combinations
\* find_combinations() with the counter reset first
FindCombinationsResetting ==
    /\ pc \in {"idle", "done"}
    /\ runs < MaxRuns
    /\ pieces # <<>>
    /\ pc' = "running"
    /\ runs' = runs + 1
    /\ heap' = [k \in {1} |-> EmptyDict]
    /\ stack' = <<NewFrame(0, 0, 1, pieces, [k \in {1} |-> EmptyDict])>>
    /\ combinations_number' = 0
    /\ UNCHANGED <<Config, err, stdout, counted, single>>

\* find_combinations(): place_pieces(0, 0, {}, self.pieces)
FindCombinations ==
    /\ pc \in {"idle", "done"}
    /\ runs < MaxRuns
    /\ pieces # <<>>
    /\ pc' = "running"
    /\ runs' = runs + 1
    /\ heap' = [k \in {1} |-> EmptyDict]
    /\ stack' = <<NewFrame(0, 0, 1, pieces, [k \in {1} |-> EmptyDict])>>
    /\ UNCHANGED <<Config, combinations_number, err, stdout, counted, single>>

\* piece = pieces[0] on an empty list
RaiseIndexError ==
    /\ pc \in {"idle", "done"}
    /\ runs < MaxRuns
    /\ pieces = <<>>
    /\ pc' = "error"
    /\ err' = "IndexError"
    /\ runs' = runs + 1
    /\ UNCHANGED <<Config, combinations_number, stack, heap, stdout, counted,
                   single>>

\* ---------------------------------------------- place_pieces, loop body
\* check_board looks the piece up in its dispatch table
RaiseKeyError ==
    /\ InLoop
    /\ <<top.i, top.j>> \notin DOMAIN heap[top.ref]
    /\ top.pieces[1] \notin DOMAIN PIECES_MAP
    /\ pc' = "error"
    /\ err' = "KeyError"
    /\ stack' = <<>>
    /\ heap' = <<>>
    /\ UNCHANGED <<Config, combinations_number, runs, stdout, counted, single>>

Legal ==
    /\ InLoop
    /\ <<top.i, top.j>> \notin DOMAIN heap[top.ref]
    /\ top.pieces[1] \in DOMAIN PIECES_MAP

\* cells_to_mark = self.check_board(i, j, _cells_map, piece)
CellsToMark == CheckBoard(top.i, top.j, heap[top.ref], top.pieces[1])

\* cells_map = dict(_cells_map); cells_map[(i, j)] = piece
Placed ==
    LET cp == DictCopy(heap, top.ref, NewRef)
    IN  [heap |-> HeapSet(cp.heap, cp.ref, <<top.i, top.j>>, top.pieces[1]),
         ref  |-> cp.ref]

\* ... then for coords in cells_to_mark: cells_map[coords] = None
Marked(cells) ==
    LET placed == Placed
    IN  [heap |-> HeapSetAll(placed.heap, placed.ref, cells, None),
         ref  |-> placed.ref]

\* len(cells_map) == self.width * self.height
IsFull(m) == Cardinality(DOMAIN m.heap[m.ref]) = width * height

\* if cells_to_mark is None: continue
SkipIllegal ==
    /\ Legal
    /\ ~CellsToMark.ok
    /\ stack' = SetTop(Advance(top, heap[top.ref]))
    /\ UNCHANGED <<Config, combinations_number, pc, err, runs, heap, stdout,
                   counted, single>>

\* self.combinations_number += 1; if self.verbose: print(...); continue
CountPlaced(placed) ==
    /\ combinations_number' = combinations_number + 1
    /\ counted' = <<placed.heap[placed.ref]>>
    /\ stdout' = IF verbose THEN <<PrettyfieBoard(placed.heap[placed.ref])>>
                 ELSE stdout
    /\ stack' = SetTop(Advance(top, placed.heap[top.ref]))
    /\ heap' = Release(placed.heap, stack')

\* if len(pieces) == 1: count the combination, print it if verbose
Count ==
    /\ Legal
    /\ Len(top.pieces) = 1
    /\ CellsToMark.ok
    /\ \E placed \in {Placed} : CountPlaced(placed)
    /\ UNCHANGED <<Config, pc, err, runs, single>>

PruneMarked(marked) ==
    /\ IsFull(marked)
    /\ stack' = SetTop(Advance(top, marked.heap[top.ref]))
    /\ heap' = Release(marked.heap, stack')

\* if len(cells_map) == self.width * self.height: continue
PruneFull ==
    /\ Legal
    /\ Len(top.pieces) # 1
    /\ \E cells_to_mark \in {CellsToMark} :
         /\ cells_to_mark.ok
         /\ \E marked \in {Marked(cells_to_mark.cells)} : PruneMarked(marked)
    /\ UNCHANGED <<Config, combinations_number, pc, err, runs, stdout, counted,
                   single>>

\* start_x, start_y = 0, 0
\* if piece == pieces[1]: start_x = (j + 1) % width; start_y = i + (j + 1) // width
NextStart(f) ==
    IF f.pieces[1] = f.pieces[2]
    THEN [x |-> (f.j + 1) % width, y |-> f.i + ((f.j + 1) \div width)]
    ELSE [x |-> 0, y |-> 0]

\* self.place_pieces(start_x, start_y, cells_map, pieces[1:])
Call(marked, start) ==
    /\ ~IsFull(marked)
    /\ stack' = Append(SetTop([top EXCEPT !.start_x = start.x,
                                          !.start_y = start.y]),
                       NewFrame(start.x, start.y, marked.ref,
                                RestPieces(top.pieces), marked.heap))
    /\ heap' = Release(marked.heap, stack')

Recurse ==
    /\ Legal
    /\ Len(top.pieces) # 1
    /\ \E cells_to_mark \in {CellsToMark} :
         /\ cells_to_mark.ok
         /\ \E marked \in {Marked(cells_to_mark.cells)} :
              \E start \in {NextStart(top)} : Call(marked, start)
    /\ UNCHANGED <<Config, combinations_number, pc, err, runs, stdout, counted,
                   single>>

\* the loops of a nested call are exhausted: back in the caller's loop
Return ==
    /\ pc = "running"
    /\ Len(stack) > 1
    /\ top.fin
    /\ stack' = [SubSeq(stack, 1, Len(stack) - 1)
                   EXCEPT ![Len(stack) - 1] = Advance(@, heap[@.ref])]
    /\ heap' = Release(heap, stack')
    /\ UNCHANGED <<Config, combinations_number, pc, err, runs, stdout, counted,
                   single>>

\* the outermost call returns: find_combinations() is over
Finish ==
    /\ pc = "running"
    /\ Len(stack) = 1
    /\ top.fin
    /\ pc' = "done"
    /\ stack' = <<>>
    /\ heap' = <<>>
    /\ single' = IF runs = 1 THEN combinations_number ELSE single
    /\ UNCHANGED <<Config, combinations_number, err, runs, stdout, counted>>

Next ==
    \/ FindCombinations
    \/ RaiseIndexError
    \/ RaiseKeyError
    \/ SkipIllegal
    \/ Count
    \/ PruneFull
    \/ Recurse
    \/ Return
    \/ Finish

Spec == Init /\ [][Next]_vars

\* a step of a running search
SearchStep ==
    \/ RaiseKeyError
    \/ SkipIllegal
    \/ Count
    \/ PruneFull
    \/ Recurse
    \/ Return
    \/ Finish

\* the search is ordinary sequential code: once called it keeps running
\* until it returns or raises
FairSpec == Spec /\ WF_vars(SearchStep)

\* ------------------------------------------- a second, fresh instance
\* ChessBoard(width, height, pieces') where pieces' is pieces with the
\* entries at positions a and b, of distinct kinds, exchanged; the count of
\* the first instance is kept for comparison
NewInstanceSwapped(a, b) ==
    /\ pc = "done"
    /\ instance = 1
    /\ runs = 1
    /\ a < b
    /\ pieces[a] # pieces[b]
    /\ pieces' = [pieces EXCEPT ![a] = pieces[b], ![b] = pieces[a]]
    /\ prev_count' = GetCombinationsNumber
    /\ instance' = 2
    /\ combinations_number' = 0
    /\ pc' = "idle"
    /\ runs' = 0
    /\ stdout' = <<>>
    /\ counted' = <<>>
    /\ single' = 0
    /\ UNCHANGED <<width, height, verbose, err, stack, heap>>

\* the lists an exchange is tried on: recognised kinds only, long enough
\* for two equal kinds to be separated by another
SwapLists == UNION {[1..n -> DOMAIN PIECES_MAP] : n \in 2..MaxSwapPieces}

InitSwap ==
    /\ width \in 1..MaxWidth
    /\ height \in 1..MaxHeight
    /\ pieces \in SwapLists
    /\ verbose = FALSE
    /\ combinations_number = 0
    /\ pc = "idle"
    /\ err = None
    /\ runs = 0
    /\ stack = <<>>
    /\ heap = <<>>
    /\ stdout = <<>>
    /\ counted = <<>>
    /\ single = 0
    /\ instance = 1
    /\ prev_count = 0

\* one search per instance
FindCombinationsOnce == runs = 0 /\ FindCombinations

\* no lookup fails on these lists
NextSwap ==
    \/ FindCombinationsOnce
    \/ SkipIllegal
    \/ Count
    \/ PruneFull
    \/ Recurse
    \/ Return
    \/ Finish
    \/ \E a \in DOMAIN pieces : \E b \in DOMAIN pieces : NewInstanceSwapped(a, b)

SpecSwap == InitSwap /\ [][NextSwap]_vars

\* ------------------------------------------------- N queens on N x N
QueenSizes == {4, 8}

InitQueens ==
    /\ width \in QueenSizes
    /\ height = width
    /\ pieces = [k \in 1..width |-> "Q"]
    /\ verbose = FALSE
    /\ combinations_number = 0
    /\ pc = "idle"
    /\ err = None
    /\ runs = 0
    /\ stack = <<>>
    /\ heap = <<>>
    /\ stdout = <<>>
    /\ counted = <<>>
    /\ single = 0
    /\ instance = 1
    /\ prev_count = 0

\* the steps a list of queens can take: no lookup fails, and a cell no
\* queen has marked is attacked by none, so no candidate is rejected
NextQueens ==
    \/ FindCombinationsOnce
    \/ Count
    \/ PruneFull
    \/ Recurse
    \/ Return
    \/ Finish

SpecQueens == InitQueens /\ [][NextQueens]_vars

\* ------------------------------------------------------------ properties
Kinds == DOMAIN PIECES_MAP

ValidConfiguration ==
    /\ width >= 1
    /\ height >= 1
    /\ pieces # <<>>
    /\ \A k \in DOMAIN pieces : pieces[k] \in Kinds

InvalidConfiguration == ~ValidConfiguration

Cells == (0..(height - 1)) \X (0..(width - 1))

\* the rules of chess: a piece of the given kind on cell a attacks cell b
Attacks(kind, a, b) ==
    LET dy == Abs(a[1] - b[1])
        dx == Abs(a[2] - b[2])
        line == (dy = 0 \/ dx = 0) /\ a # b
        diag == dy = dx /\ a # b
    IN  CASE kind = "K" -> a # b /\ dy <= 1 /\ dx <= 1
          [] kind = "R" -> line
          [] kind = "B" -> diag
          [] kind = "Q" -> line \/ diag
          [] kind = "N" -> (dy = 1 /\ dx = 2) \/ (dy = 2 /\ dx = 1)

Occupied(cm) == {c \in DOMAIN cm : cm[c] # None}

\* the distinct configurations of the piece multiset: one cell per piece,
\* no piece attacking another, as sets of (cell, kind) pairs
Configurations ==
    {{<<asg[k], pieces[k]>> : k \in DOMAIN pieces} :
        asg \in {f \in [DOMAIN pieces -> Cells] :
                   /\ \A k, l \in DOMAIN pieces : k # l => f[k] # f[l]
                   /\ \A k, l \in DOMAIN pieces :
                        k # l => ~Attacks(pieces[k], f[k], f[l])}}

\* C1: after one find_combinations() on a fresh instance the counter equals
\* the number of distinct non-attacking configurations of the piece
\* multiset, whatever the order of the pieces in the list.
C1_CountIsNumberOfConfigurations ==
    (pc = "done" /\ runs = 1 /\ ValidConfiguration)
        => GetCombinationsNumber = Cardinality(Configurations)

\* C2: exchanging two pieces of distinct kinds in the list does not change
\* the count: the fresh instance built on the exchanged list ends its search
\* with the count of the first instance.
C2_SwapKeepsCount ==
    (instance = 2 /\ pc = "done" /\ runs = 1)
        => GetCombinationsNumber = prev_count

\* C3: every placement that increments the counter holds exactly
\* len(self.pieces) pieces, on distinct in-bounds cells, and no piece attacks
\* the cell of another.
C3_CountedPlacementIsLegal ==
    counted # <<>> =>
        LET cm == counted[1]
        IN  /\ Cardinality(Occupied(cm)) = Len(pieces)
            /\ Occupied(cm) \subseteq Cells
            /\ \A c \in Occupied(cm) : cm[c] \in Kinds
            /\ \A a, b \in Occupied(cm) : a # b => ~Attacks(cm[a], a, b)

C3_Witness ==
    /\ counted # <<>>
    /\ pieces = <<"N", "K">>
    /\ width = 3
    /\ height = 2

\* C4: an invalid configuration (a non-positive dimension, an empty list, an
\* unrecognised symbol) is rejected with an error: a search on it never
\* finishes normally.
C4_InvalidNeverFinishes == InvalidConfiguration => pc # "done"

\* C5: n queens on an n x n board: 2 placements for n = 4, 92 for n = 8.
C5_QueensReferenceCounts ==
    (pc = "done" /\ runs = 1 /\ pieces = [k \in 1..width |-> "Q"]
       /\ height = width)
        => /\ width = 4 => GetCombinationsNumber = 2
           /\ width = 8 => GetCombinationsNumber = 92

C5_Witness ==
    /\ pc = "done"
    /\ runs = 1
    /\ width = 4
    /\ height = 4
    /\ pieces = <<"Q", "Q", "Q", "Q">>
    /\ GetCombinationsNumber = 2

\* no candidate cell of a queens search is rejected by check_board and no
\* lookup fails: NextQueens leaves out no step the search could take
QueensTakeEveryStep ==
    /\ pieces # <<>>
    /\ InLoop => top.pieces[1] \in Kinds
    /\ ~(Legal /\ ~CellsToMark.ok)

\* C6: on a valid configuration a search that was started finishes, raises
\* no error and never nests deeper than the number of pieces; when there
\* are more pieces than cells it finishes with count 0.
C6_SearchTerminates ==
    /\ [](ValidConfiguration => pc # "error" /\ Len(stack) <= Len(pieces))
    /\ []((ValidConfiguration /\ pc = "done" /\ Len(pieces) > width * height)
            => GetCombinationsNumber = 0)
    /\ (ValidConfiguration /\ pc = "running") ~> (pc = "done")

C6_Witness ==
    /\ pc = "done"
    /\ width = 1
    /\ height = 1
    /\ pieces = <<"K", "K">>
    /\ GetCombinationsNumber = 0

\* C7: the rendering of a counted placement shows every occupied cell as its
\* piece label and all unoccupied cells, attacked or free, as one and the
\* same filler glyph.
C7_RenderingUsesOneFiller ==
    (stdout # <<>> /\ counted # <<>>) =>
        LET cm == counted[1]
            glyph(c) == stdout[1].rows[c[1] + 1][c[2] + 1]
        IN  /\ \A c \in Occupied(cm) : glyph(c) = cm[c]
            /\ \A c, e \in Cells \ Occupied(cm) : glyph(c) = glyph(e)

\* C8: place_pieces never modifies the map it was given: through every
\* step, the whole subtree below a candidate included, the map of each
\* active call keeps its entries; and the map of each nested call strictly
\* extends the map of its caller.
SameCalls == 1..(IF Len(stack) < Len(stack') THEN Len(stack) ELSE Len(stack'))

StrictlyExtends(child, parent) ==
    /\ DOMAIN parent \subseteq DOMAIN child
    /\ DOMAIN parent # DOMAIN child
    /\ \A c \in DOMAIN parent : child[c] = parent[c]

C8_CallerMapUntouched ==
    /\ [][\A k \in SameCalls : heap'[stack'[k].ref] = heap[stack[k].ref]]_vars
    /\ [](\A k \in 2..Len(stack) :
            StrictlyExtends(heap[stack[k].ref], heap[stack[k - 1].ref]))

\* a caller back in its loop after a nested call returned, a later sibling
\* candidate under test, a placement of the first subtree already counted
C8_Witness ==
    /\ pc = "running"
    /\ Len(stack) = 2
    /\ Len(pieces) = 2
    /\ Len(stack[1].seen) >= 2
    /\ combinations_number > 0
    /\ DOMAIN heap[stack[1].ref] = {}

\* C9: a call place_pieces(start_x, start_y, ...) examines exactly the cells
\* at or after (start_y, start_x) in row-major order, each once and in that
\* order, whatever start_x and start_y are reassigned to before recursing.
RowMajorFrom(row, col) ==
    IF width <= 0 THEN <<>>
    ELSE [n \in 1..(width * height - (row * width + col)) |->
            <<(row * width + col + n - 1) \div width,
              (row * width + col + n - 1) % width>>]

C9_CandidatesInRowMajorOrder ==
    \A k \in DOMAIN stack :
        LET f == stack[k]
            expected == RowMajorFrom(f.arg_y, f.arg_x)
        IN  /\ Len(f.seen) <= Len(expected)
            /\ f.seen = SubSeq(expected, 1, Len(f.seen))
            /\ f.fin => f.seen = expected
            /\ ~f.fin => Len(f.seen) < Len(expected)
                         /\ <<f.i, f.j>> = expected[Len(f.seen) + 1]

\* a call that recursed from a row below its first one (start_y reassigned)
\* and then ran its loops to the end
C9_Witness ==
    /\ stack # <<>>
    /\ top.fin
    /\ top.start_y # top.arg_y
    /\ Len(top.seen) = width * height
    /\ height >= 2

\* C10: the counter is 0 before any search, and find_combinations() never
\* resets it: after n searches on one instance it is n times the count of
\* the first search (the one a fresh instance does).
C10_CounterAccumulates ==
    /\ runs = 0 => GetCombinationsNumber = 0
    /\ pc = "done" => GetCombinationsNumber = runs * single

C10_Witness == pc = "done" /\ runs = 2 /\ single > 0

====
